---- MODULE Spec2Model ----
\* A model of src/index.js: the window.fetch override that forwards requests
\* over the host bridge (proxyFetch), and the ProxyXMLHttpRequest emulation
\* built on fetch.  JavaScript strings are TLA+ strings; header mappings are
\* sets of <<name, value>> pairs.
EXTENDS Integers, Sequences, FiniteSets, TLC

VARIABLES
    localAppRequestCommand, \* the module-level `let` of line 1
    windowFetch,            \* window.fetch: 0 is the native function, k > 0 the
                            \* override created by the k-th run of proxyFetch()
    originalFetch,          \* originalFetch[k]: the const captured by override k
    calls,                  \* the calls of window.fetch and, for the calls made
                            \* by send(), the position of its promise chain
    xhr,                    \* the ProxyXMLHttpRequest instances
    step,                   \* the operation or continuation that ran last
    dispatch                \* the callbacks that operation invoked, in order

vars == <<localAppRequestCommand, windowFetch, originalFetch, calls, xhr, step, dispatch>>

----------------------------------------------------------------------------
\* Bounds of the model.

MaxInit == 2        \* runs of initialize()
MaxCalls == 2       \* calls of window.fetch
MaxSends == 1       \* calls of send() on the request object of Spec and SpecAuth
MaxInvokes == 3     \* bridge invocations of one call that the model follows
MaxXhr == 2         \* ProxyXMLHttpRequest instances
MaxListeners == 2   \* registrations in one listener list, and in all of SpecEvents

----------------------------------------------------------------------------
\* JavaScript values.

Null == "<null>"
Undefined == "<undefined>"

\* ToBoolean of a string-or-nullish value.
Truthy(v) == v \notin {Null, Undefined, ""}

\* a || b
OrElse(a, b) == IF Truthy(a) THEN a ELSE b

\* String.prototype.startsWith
StartsWith(s, prefix) ==
    /\ Len(s) >= Len(prefix)
    /\ SubSeq(s, 1, Len(prefix)) = prefix

CharAt(s, i) == SubSeq(s, i, i)

DigitChars == "0123456789"

IsDigit(c) == \E d \in 1..10 : CharAt(DigitChars, d) = c

DigitValue(c) == (CHOOSE d \in 1..10 : CharAt(DigitChars, d) = c) - 1

RECURSIVE SkipSpaces(_, _)
SkipSpaces(s, i) ==
    IF i <= Len(s) /\ CharAt(s, i) = " " THEN SkipSpaces(s, i + 1) ELSE i

RECURSIVE ReadDigits(_, _, _)
ReadDigits(s, i, acc) ==
    IF i <= Len(s) /\ IsDigit(CharAt(s, i))
    THEN ReadDigits(s, i + 1, 10 * acc + DigitValue(CharAt(s, i)))
    ELSE acc

\* parseInt(s) for decimal text: leading blanks are skipped, the longest
\* prefix of digits is read, and the result is NaN when there is none.
ParseInt(s) ==
    LET i == SkipSpaces(s, 1)
    IN  IF i <= Len(s) /\ IsDigit(CharAt(s, i))
        THEN [nan |-> FALSE, val |-> ReadDigits(s, i, 0)]
        ELSE [nan |-> TRUE, val |-> 0]

\* A header mapping is a set of <<name, value>> pairs with distinct names.
HasKey(h, k) == \E p \in h : p[1] = k

\* h[k]
Get(h, k) == IF HasKey(h, k) THEN (CHOOSE p \in h : p[1] = k)[2] ELSE Undefined

\* h[k] = v
Put(h, k, v) == {p \in h : p[1] # k} \cup {<<k, v>>}

UpperChars == "ABCDEFGHIJKLMNOPQRSTUVWXYZ"
LowerChars == "abcdefghijklmnopqrstuvwxyz"

ToLowerChar(c) ==
    IF \E k \in 1..26 : CharAt(UpperChars, k) = c
    THEN CharAt(LowerChars, CHOOSE k \in 1..26 : CharAt(UpperChars, k) = c)
    ELSE c

\* String.prototype.toLowerCase, for ASCII text
RECURSIVE ToLowerCase(_)
ToLowerCase(s) ==
    IF Len(s) = 0 THEN ""
    ELSE ToLowerChar(CharAt(s, 1)) \o ToLowerCase(SubSeq(s, 2, Len(s)))

\* The printable ASCII characters from code 32 to code 95 and from code 97 to
\* code 126 (a TLA+ string cannot hold code 96, the grave accent).
AsciiLow ==
    " !\"#$%&'()*+,-./0123456789:;<=>?@ABCDEFGHIJKLMNOPQRSTUVWXYZ[\\]^_"
AsciiHigh == "abcdefghijklmnopqrstuvwxyz{|}~"

CharCode(c) ==
    IF \E k \in 1..64 : CharAt(AsciiLow, k) = c
    THEN 31 + (CHOOSE k \in 1..64 : CharAt(AsciiLow, k) = c)
    ELSE 96 + (CHOOSE k \in 1..30 : CharAt(AsciiHigh, k) = c)

FromCharCode(n) ==
    IF n \in 32..95 THEN CharAt(AsciiLow, n - 31)
    ELSE IF n \in 97..126 THEN CharAt(AsciiHigh, n - 96)
    ELSE "?"

\* new TextDecoder("utf-8").decode(new Uint8Array(bytes)), for bytes that are
\* printable ASCII (one byte, one character); any other byte of the model's
\* bodies decodes to "?" here.
RECURSIVE Utf8Decode(_)
Utf8Decode(bytes) ==
    IF Len(bytes) = 0 THEN ""
    ELSE FromCharCode(bytes[1])
         \o Utf8Decode(Tail(bytes))

\* String.prototype.includes
Includes(s, sub) ==
    \E k \in 1..(Len(s) - Len(sub) + 1) : SubSeq(s, k, k + Len(sub) - 1) = sub

Base64Chars == "ABCDEFGHIJKLMNOPQRSTUVWXYZabcdefghijklmnopqrstuvwxyz0123456789+/"

Base64Char(n) == CharAt(Base64Chars, n + 1)

\* btoa(s), for printable ASCII text: each group of three bytes gives four
\* characters; a last group of one or two bytes is padded with "=".
RECURSIVE Btoa(_)
Btoa(s) ==
    IF Len(s) = 0 THEN ""
    ELSE LET b1 == CharCode(CharAt(s, 1))
             b2 == IF Len(s) >= 2 THEN CharCode(CharAt(s, 2)) ELSE 0
             b3 == IF Len(s) >= 3 THEN CharCode(CharAt(s, 3)) ELSE 0
             n == b1 * 65536 + b2 * 256 + b3
         IN  Base64Char(n \div 262144)
             \o Base64Char((n \div 4096) % 64)
             \o (IF Len(s) >= 2 THEN Base64Char((n \div 64) % 64) ELSE "=")
             \o (IF Len(s) >= 3 THEN Base64Char(n % 64) ELSE "=")
             \o Btoa(SubSeq(s, 4, Len(s)))

----------------------------------------------------------------------------
\* The window.fetch override (proxyFetch, lines 17-57).

DefaultCommand == "local_app_request"

\* The options argument of fetch.  given: an options object was passed;
\* method, body: Undefined when the property is absent; hasHeaders: the
\* headers property is present; signal: the instance whose controller's
\* signal is passed (0: none).
NoOptions ==
    [given |-> FALSE, method |-> Undefined, hasHeaders |-> FALSE, headers |-> {},
     body |-> Undefined, signal |-> 0, credentials |-> Undefined]

\* lines 26-31: the request descriptor; body is a field only when the caller
\* gave a truthy one.
BuildRequest(url, options) ==
    LET method == OrElse(options.method, "GET")
        headers == IF options.hasHeaders THEN options.headers ELSE {}
    IN  IF Truthy(options.body)
        THEN [uri |-> url, method |-> method, headers |-> headers, body |-> options.body]
        ELSE [uri |-> url, method |-> method, headers |-> headers]

\* lines 39-43
RedirectRequest(location) == [uri |-> location, method |-> "GET", headers |-> {}]

\* A redirect test that leaves 308 out.
IsRedirectWithout308(status_code) ==
    LET n == ParseInt(status_code)
    IN  ~n.nan /\ n.val \in {301, 302, 303, 307}

\* line 36: [301, 302, 303, 307, 308].includes(parseInt(status_code))
IsRedirect(status_code) ==
    LET n == ParseInt(status_code)
    IN  ~n.nan /\ n.val \in {301, 302, 303, 307, 308}

NoRequest == [uri |-> Undefined]

\* lines 32-34 and 44-46: the arguments object handed to invoke
InvokeArgs(request) == [localRequest |-> request]

\* A follow-up under the configured command name.
FollowUpCommandConfigured == localAppRequestCommand

\* line 44: the command name of a redirect follow-up
FollowUpCommand == "local_app_request"
NoDescriptor == [status_code |-> Undefined, headers |-> {}, body |-> <<>>]
NoResponse ==
    [status |-> 0, statusText |-> "", url |-> "", headers |-> {}, text |-> Undefined]

\* new Headers(map): names are lower-cased.
NewHeaders(map) == {<<ToLowerCase(p[1]), p[2]>> : p \in map}

\* new Response(text, {status, headers}) throws a RangeError for a status
\* outside 200..599 (NaN included) and a TypeError for a null-body status,
\* since text is never null.
ResponseThrows(status) ==
    IF status.nan \/ status.val < 200 \/ status.val > 599 THEN "RangeError"
    ELSE IF status.val \in {204, 205, 304} THEN "TypeError"
    ELSE Undefined

\* A reconstruction that reports every answer as 200.
NewResponseStatusOk(descriptor) ==
    [status |-> 200,
     statusText |-> "", url |-> "",
     headers |-> NewHeaders(descriptor.headers),
     text |-> Utf8Decode(descriptor.body)]

\* lines 49-55; a constructed Response has the empty statusText and url.
NewResponse(descriptor) ==
    [status |-> ParseInt(descriptor.status_code).val,
     statusText |-> "", url |-> "",
     headers |-> NewHeaders(descriptor.headers),
     text |-> Utf8Decode(descriptor.body)]

\* A call of window.fetch.  pc: "idle" (not made), "invoke" (awaiting the
\* bridge), "native" (awaiting the native fetch), "resolved", "rejected".
\* path: the functions the call passed through, outermost first.
\* xpc: the promise chain of send(): "none" (not made by send), "fetch",
\* "body" (the first then ran), "done", "failed".
NoCall ==
    [pc |-> "idle", caller |-> 0, url |-> Undefined, options |-> NoOptions,
     path |-> <<>>, nativeArgs |-> <<>>,
     nInvokes |-> 0, nReceived |-> 0, cmd |-> Undefined, req |-> NoRequest,
     invokeArgs |-> InvokeArgs(NoRequest),
     response |-> NoDescriptor, result |-> NoResponse, error |-> Undefined,
     xpc |-> "none", cancelled |-> FALSE, loads |-> 0, errors |-> 0]

\* A routing without the reserved-scheme test of lines 22-24.
RouteWithoutBypass(f, url, options, path) ==
    IF f = 0
    THEN [kind |-> "native", path |-> Append(path, f), args |-> <<url, options>>]
    ELSE IF url \in {Null, Undefined}
    THEN [kind |-> "throw", path |-> Append(path, f), args |-> <<>>]
    ELSE [kind |-> "bridge", path |-> Append(path, f), args |-> <<>>]

\* lines 20-34, for window.fetch = f: the native function takes the call; an
\* override throws on a url that is no string (the async function's promise
\* rejects), hands a reserved url with the same arguments to the function it
\* captured, and invokes the bridge for any other.
RECURSIVE Route(_, _, _, _)
Route(f, url, options, path) ==
    IF f = 0
    THEN [kind |-> "native", path |-> Append(path, f), args |-> <<url, options>>]
    ELSE IF url \in {Null, Undefined}
    THEN [kind |-> "throw", path |-> Append(path, f), args |-> <<>>]
    ELSE IF StartsWith(url, "ipc://")
    THEN Route(originalFetch[f], url, options, Append(path, f))
    ELSE [kind |-> "bridge", path |-> Append(path, f), args |-> <<>>]

\* The call record after window.fetch(url, options) returned its promise.
NewCall(caller, url, options) ==
    LET r == Route(windowFetch, url, options, <<>>)
        base == [NoCall EXCEPT !.caller = caller, !.url = url, !.options = options,
                               !.path = r.path, !.nativeArgs = r.args,
                               !.xpc = IF caller = 0 THEN "none" ELSE "fetch"]
    IN  CASE r.kind = "native" -> [base EXCEPT !.pc = "native"]
          [] r.kind = "throw" -> [base EXCEPT !.pc = "rejected", !.error = "TypeError"]
          [] OTHER -> [base EXCEPT !.pc = "invoke", !.nInvokes = 1,
                                   !.cmd = localAppRequestCommand,
                                   !.req = BuildRequest(url, options),
                                   !.invokeArgs = InvokeArgs(BuildRequest(url, options))]

\* The slot of the next call.
NextCall == 1 + Cardinality({c \in 1..MaxCalls : calls[c].pc # "idle"})

\* What a method call of the page came back with: a value, or an exception.
NoResult == [threw |-> FALSE, value |-> Undefined]
Returned(value) == [threw |-> FALSE, value |-> value]
Threw(error) == [threw |-> TRUE, value |-> error]

\* The last operation: its name, the instance and the call it acted on, for
\* a triggered event its name, and for a getter what it came back with.
Steps(op, x, c) ==
    [op |-> op, x |-> x, c |-> c, event |-> Undefined, result |-> NoResult]

\* lines 3-15 and 17-19: initialize(initialPath, override) sets the command
\* name when an override is given and runs proxyFetch(), which captures the
\* current window.fetch and installs a new override.
Initialize(override) ==
    /\ Len(originalFetch) < MaxInit
    /\ localAppRequestCommand' =
           IF Truthy(override) THEN override ELSE localAppRequestCommand
    /\ originalFetch' = Append(originalFetch, windowFetch)
    /\ windowFetch' = Len(originalFetch) + 1
    /\ step' = Steps("initialize", 0, 0)
    /\ dispatch' = <<>>
    /\ UNCHANGED <<calls, xhr>>

\* The page calls window.fetch(url, options).
Fetch(url, options) ==
    /\ NextCall <= MaxCalls
    /\ calls' = [calls EXCEPT ![NextCall] = NewCall(0, url, options)]
    /\ step' = Steps("fetch", 0, NextCall)
    /\ dispatch' = <<>>
    /\ UNCHANGED <<localAppRequestCommand, windowFetch, originalFetch, xhr>>

----------------------------------------------------------------------------
\* ProxyXMLHttpRequest (lines 60-229).

\* The event names of the model's listener registries.
EventNames ==
    {"readystatechange", "load", "error", "abort", "loadstart", "loadend",
     "progress", "progressive"}

NoListeners == [e \in EventNames |-> <<>>]

\* lines 91-112: the fields after construction.  on: the names of the on<event>
\* properties that hold a callback; eventListeners, upload: the registries of
\* the instance and of its upload object; aborted: controller.signal.aborted;
\* user and password are not assigned before open().
NewXhr ==
    [alive |-> TRUE, aborted |-> FALSE, readyState |-> 0,
     status |-> 0, statusText |-> "", response |-> Null, responseText |-> Undefined,
     responseURL |-> "", method |-> Null, url |-> Null,
     user |-> Undefined, password |-> Undefined,
     requestHeaders |-> {}, parsedHeaders |-> FALSE, responseHeaders |-> {},
     on |-> {}, eventListeners |-> NoListeners, upload |-> NoListeners]

NoXhr == [NewXhr EXCEPT !.alive = FALSE]

\* One invocation of a callback: by instance i, of listener id (0: an
\* on<event> property) of target ("listener", "on", "upload"), with what the
\* callback sees on the instance (readyState, status, whether the response
\* headers are parsed, responseText) and the argument it is given.
Invocation(i, target, id, event, x) ==
    [x |-> i, target |-> target, id |-> id, event |-> event,
     readyState |-> x.readyState, status |-> x.status,
     parsedHeaders |-> x.parsedHeaders, responseText |-> x.responseText,
     arg |-> Undefined]

\* this.on<event>(arg), called directly (lines 159 and 162)
Callback(i, event, x, arg) ==
    [x |-> i, target |-> "on", id |-> 0, event |-> event,
     readyState |-> x.readyState, status |-> x.status,
     parsedHeaders |-> x.parsedHeaders, responseText |-> x.responseText,
     arg |-> arg]

\* lines 81-87: EventTarget._triggerEvent calls the listeners of the event in
\* the order of registration.
TargetTrigger(i, target, registry, event, x) ==
    [k \in 1..Len(registry[event]) |->
        Invocation(i, target, registry[event][k], event, x)]

\* A relay test that matches every event name.
RelaysToUploadAlways(event) == TRUE

\* lines 217-222
RelaysToUpload(event) ==
    \/ StartsWith(event, "progress")
    \/ event = "loadstart"
    \/ event = "loadend"
    \/ event = "abort"

\* lines 211-225: ProxyXMLHttpRequest._triggerEvent on instance i in state x:
\* its own listeners, then its on<event> property, then for the relayed names
\* the listeners of its upload object.
TriggerEvent(i, event, x) ==
    TargetTrigger(i, "listener", x.eventListeners, event, x)
    \o (IF ("on" \o event) \in x.on
        THEN <<Invocation(i, "on", 0, event, x)>> ELSE <<>>)
    \o (IF RelaysToUpload(event)
        THEN TargetTrigger(i, "upload", x.upload, event, x) ELSE <<>>)

XhrUnchanged == UNCHANGED <<localAppRequestCommand, windowFetch, originalFetch>>

\* lines 91-112: new XMLHttpRequest(); the event fires on the fresh object.
Construct(i) ==
    /\ ~xhr[i].alive
    /\ i > 1 => xhr[i - 1].alive
    /\ xhr' = [xhr EXCEPT ![i] = NewXhr]
    /\ dispatch' = TriggerEvent(i, "readystatechange", NewXhr)
    /\ step' = Steps("construct", i, 0)
    /\ UNCHANGED calls
    /\ XhrUnchanged

\* An open() that fires no event.
OpenSilently(i, method, url, user, password) ==
    /\ xhr[i].alive
    /\ xhr' = [xhr EXCEPT ![i] = [@ EXCEPT !.method = method, !.url = url,
                   !.user = user, !.password = password, !.readyState = 1]]
    /\ dispatch' = <<>>
    /\ step' = Steps("open", i, 0)
    /\ UNCHANGED calls
    /\ XhrUnchanged

\* lines 114-122
Open(i, method, url, user, password) ==
    /\ xhr[i].alive
    /\ LET x == [xhr[i] EXCEPT !.method = method, !.url = url,
                     !.user = user, !.password = password, !.readyState = 1]
       IN  /\ xhr' = [xhr EXCEPT ![i] = x]
           /\ dispatch' = TriggerEvent(i, "readystatechange", x)
    /\ step' = Steps("open", i, 0)
    /\ UNCHANGED calls
    /\ XhrUnchanged

\* lines 166-168
SetRequestHeader(i, header, value) ==
    /\ xhr[i].alive
    /\ xhr' = [xhr EXCEPT ![i].requestHeaders = Put(@, header, value)]
    /\ dispatch' = <<>>
    /\ step' = Steps("setRequestHeader", i, 0)
    /\ UNCHANGED calls
    /\ XhrUnchanged

\* A credentials mode that needs both user and password.
CredentialsModeBoth(user, password) ==
    IF Truthy(user) /\ Truthy(password) THEN "include" ELSE "same-origin"

\* line 131
CredentialsMode(user, password) ==
    IF Truthy(user) \/ Truthy(password) THEN "include" ELSE "same-origin"

\* lines 134-137: the headers object of the instance, with the Authorization
\* header written into it when user and password are both truthy.
SendHeaders(x) ==
    IF Truthy(x.user) /\ Truthy(x.password)
    THEN Put(x.requestHeaders, "Authorization",
             "Basic " \o Btoa(x.user \o ":" \o x.password))
    ELSE x.requestHeaders

\* lines 125-137: the options of the fetch; headers is the requestHeaders
\* object itself.
SendOptions(i, x, data) ==
    [given |-> TRUE, method |-> x.method, hasHeaders |-> TRUE,
     headers |-> SendHeaders(x), body |-> data, signal |-> i,
     credentials |-> CredentialsMode(x.user, x.password)]

\* lines 124-140: send(data) up to the call of fetch, whose continuations
\* follow.
Send(i, data) ==
    /\ xhr[i].alive
    /\ NextCall <= MaxCalls
    /\ LET x == [xhr[i] EXCEPT !.requestHeaders = SendHeaders(xhr[i]),
                                !.readyState = 2]
       IN  /\ xhr' = [xhr EXCEPT ![i] = x]
           /\ dispatch' = TriggerEvent(i, "readystatechange", x)
           /\ calls' = [calls EXCEPT ![NextCall] =
                   NewCall(i, x.url, SendOptions(i, xhr[i], data))]
    /\ step' = Steps("send", i, NextCall)
    /\ XhrUnchanged

\* The sends of instance i that have not completed.
InFlight(i, c) == calls[c].caller = i /\ calls[c].xpc \in {"fetch", "body"}

\* lines 170-174.  cancelled records, for the claims, that abort() was called
\* while the send was in flight.
\* An abort that announces itself with an "abort" event, as the abort of a
\* browser's XMLHttpRequest does.
AbortWithEvent(i) ==
    /\ xhr[i].alive
    /\ LET x == [xhr[i] EXCEPT !.aborted = TRUE, !.readyState = 0]
       IN  /\ xhr' = [xhr EXCEPT ![i] = x]
           /\ dispatch' = TriggerEvent(i, "readystatechange", x)
                  \o TriggerEvent(i, "abort", x)
    /\ calls' = [c \in 1..MaxCalls |->
           IF InFlight(i, c) THEN [calls[c] EXCEPT !.cancelled = TRUE] ELSE calls[c]]
    /\ step' = Steps("abort", i, 0)
    /\ XhrUnchanged

Abort(i) ==
    /\ xhr[i].alive
    /\ LET x == [xhr[i] EXCEPT !.aborted = TRUE, !.readyState = 0]
       IN  /\ xhr' = [xhr EXCEPT ![i] = x]
           /\ dispatch' = TriggerEvent(i, "readystatechange", x)
    /\ calls' = [c \in 1..MaxCalls |->
           IF InFlight(i, c) THEN [calls[c] EXCEPT !.cancelled = TRUE] ELSE calls[c]]
    /\ step' = Steps("abort", i, 0)
    /\ XhrUnchanged

\* The registry of a target of instance i.
Registry(x, target) == IF target = "upload" THEN x.upload ELSE x.eventListeners

WithRegistry(x, target, registry) ==
    IF target = "upload" THEN [x EXCEPT !.upload = registry]
    ELSE [x EXCEPT !.eventListeners = registry]

\* lines 66-71, on the instance or on its upload object
AddEventListener(i, target, event, id) ==
    /\ xhr[i].alive
    /\ Len(Registry(xhr[i], target)[event]) < MaxListeners
    /\ xhr' = [xhr EXCEPT ![i] = WithRegistry(@, target,
                   [Registry(@, target) EXCEPT ![event] = Append(@, id)])]
    /\ dispatch' = <<>>
    /\ step' = Steps("addEventListener", i, 0)
    /\ UNCHANGED calls
    /\ XhrUnchanged

\* indexOf and splice of lines 75-78: the first occurrence is removed.
RemoveFirst(list, id) ==
    IF \E k \in 1..Len(list) : list[k] = id
    THEN LET at == CHOOSE k \in 1..Len(list) :
                       list[k] = id /\ \A j \in 1..(k - 1) : list[j] # id
         IN  SubSeq(list, 1, at - 1) \o SubSeq(list, at + 1, Len(list))
    ELSE list

\* lines 73-79
RemoveEventListener(i, target, event, id) ==
    /\ xhr[i].alive
    /\ xhr' = [xhr EXCEPT ![i] = WithRegistry(@, target,
                   [Registry(@, target) EXCEPT ![event] = RemoveFirst(@, id)])]
    /\ dispatch' = <<>>
    /\ step' = Steps("removeEventListener", i, 0)
    /\ UNCHANGED calls
    /\ XhrUnchanged

\* The page assigns a callback to an on<event> property (lines 93-95 set
\* onload, onerror and onreadystatechange to null).
SetOn(i, property) ==
    /\ xhr[i].alive
    /\ property \notin xhr[i].on
    /\ xhr' = [xhr EXCEPT ![i].on = @ \cup {property}]
    /\ dispatch' = <<>>
    /\ step' = Steps("setOn", i, 0)
    /\ UNCHANGED calls
    /\ XhrUnchanged

\* lines 211-225, called with an event name on instance i
Trigger(i, event) ==
    /\ xhr[i].alive
    /\ dispatch' = TriggerEvent(i, event, xhr[i])
    /\ step' = [Steps("trigger", i, 0) EXCEPT !.event = event]
    /\ UNCHANGED <<calls, xhr>>
    /\ XhrUnchanged

\* What a listener does to the list it is registered in while it runs:
\* nothing, remove itself, remove the other callback, or register the other
\* callback.
Behaviours == {"nothing", "removeSelf", "removeOther", "addOther"}

\* The other callback of the page.
Other(id) == (id % MaxListeners) + 1

\* lines 66-79, called by listener id on the list it is being called from
Effect(list, id, what) ==
    CASE what = "removeSelf" -> RemoveFirst(list, id)
      [] what = "removeOther" -> RemoveFirst(list, Other(id))
      [] what = "addOther" -> Append(list, Other(id))
      [] OTHER -> list

\* lines 83-85: forEach on the list itself.  It visits the indices below the
\* length the list had when it started and skips an index the list no longer
\* has; each callback runs against the list as the callbacks before it left
\* it.  out: the ids called, in order.
RECURSIVE ForEach(_, _, _, _, _)
ForEach(list, k, len, does, out) ==
    IF k > len THEN [list |-> list, out |-> out]
    ELSE IF k > Len(list) THEN ForEach(list, k + 1, len, does, out)
    ELSE ForEach(Effect(list, list[k], does[list[k]]), k + 1, len, does,
                 Append(out, list[k]))

\* lines 81-87 with listeners that change the registry: the event is
\* triggered on the upload object of instance i.
DispatchUpload(i, event, does) ==
    /\ xhr[i].alive
    /\ LET run == ForEach(xhr[i].upload[event], 1, Len(xhr[i].upload[event]), does, <<>>)
       IN  /\ Len(run.list) <= MaxListeners
           /\ xhr' = [xhr EXCEPT ![i].upload[event] = run.list]
           /\ dispatch' = [k \in 1..Len(run.out) |->
                  Invocation(i, "upload", run.out[k], event, xhr[i])]
    /\ step' = [Steps("dispatchUpload", i, 0) EXCEPT !.event = event]
    /\ UNCHANGED calls
    /\ XhrUnchanged

\* lines 211-225 with listeners that change the registry: the event is
\* triggered on instance i; its own listeners run as above, then its
\* on<event> property and the relay to its upload object.
DispatchOwn(i, event, does) ==
    /\ xhr[i].alive
    /\ LET own == xhr[i].eventListeners[event]
           run == ForEach(own, 1, Len(own), does, <<>>)
           x == [xhr[i] EXCEPT !.eventListeners[event] = run.list]
       IN  /\ Len(run.list) <= MaxListeners
           /\ xhr' = [xhr EXCEPT ![i] = x]
           /\ dispatch' =
                  [k \in 1..Len(run.out) |->
                      Invocation(i, "listener", run.out[k], event, x)]
                  \o (IF ("on" \o event) \in x.on
                      THEN <<Invocation(i, "on", 0, event, x)>> ELSE <<>>)
                  \o (IF RelaysToUpload(event)
                      THEN TargetTrigger(i, "upload", x.upload, event, x) ELSE <<>>)
    /\ step' = [Steps("dispatch", i, 0) EXCEPT !.event = event]
    /\ UNCHANGED calls
    /\ XhrUnchanged

\* a < b for strings, by character codes: the order in which Headers
\* iterates its names.
RECURSIVE StrLess(_, _, _)
StrLess(a, b, i) ==
    IF i > Len(b) THEN FALSE
    ELSE IF i > Len(a) THEN TRUE
    ELSE IF CharCode(CharAt(a, i)) # CharCode(CharAt(b, i))
    THEN CharCode(CharAt(a, i)) < CharCode(CharAt(b, i))
    ELSE StrLess(a, b, i + 1)

\* lines 181-183: the entries of the mapping as "key: value" lines joined by
\* "\r\n"; the mapping was filled in the order of headers.forEach (line 192),
\* which is the order of the names.
RECURSIVE JoinEntries(_)
JoinEntries(h) ==
    IF h = {} THEN ""
    ELSE LET first == CHOOSE p \in h : \A q \in h \ {p} : StrLess(p[1], q[1], 1)
             rest == h \ {first}
         IN  first[1] \o ": " \o first[2]
                 \o (IF rest = {} THEN "" ELSE "\r\n" \o JoinEntries(rest))

\* lines 176-178: this.responseHeaders is assigned by _parseHeaders only, so
\* the property read throws a TypeError until the first header arrival.
GetResponseHeader(i, header) ==
    /\ xhr[i].alive
    /\ step' = [Steps("getResponseHeader", i, 0) EXCEPT !.result =
           IF ~xhr[i].parsedHeaders THEN Threw("TypeError")
           ELSE Returned(OrElse(Get(xhr[i].responseHeaders, ToLowerCase(header)), Null))]
    /\ dispatch' = <<>>
    /\ UNCHANGED <<calls, xhr>>
    /\ XhrUnchanged

\* lines 180-184: Object.entries(undefined) throws a TypeError.
GetAllResponseHeaders(i) ==
    /\ xhr[i].alive
    /\ step' = [Steps("getAllResponseHeaders", i, 0) EXCEPT !.result =
           IF ~xhr[i].parsedHeaders THEN Threw("TypeError")
           ELSE Returned(JoinEntries(xhr[i].responseHeaders))]
    /\ dispatch' = <<>>
    /\ UNCHANGED <<calls, xhr>>
    /\ XhrUnchanged

\* The call ended in the native fetch.
IsNative(c) == calls[c].path[Len(calls[c].path)] = 0

\* The texts of the model that JSON.parse accepts.
JsonTexts == {"{}", "{\"a\":1}"}

\* lines 197-209: how the body is read
BodyType(response) ==
    LET contentType == Get(response.headers, "content-type")
    IN  IF Truthy(contentType) /\ Includes(contentType, "application/json")
        THEN "json"
        ELSE IF Truthy(contentType)
                /\ (Includes(contentType, "text/") \/ Includes(contentType, "xml"))
        THEN "text"
        ELSE "blob"

\* The signal passed to call c is aborted.
SignalAborted(c) ==
    /\ calls[c].options.signal # 0
    /\ xhr[calls[c].options.signal].aborted

\* Reading the body rejects: malformed JSON, or a native body whose signal
\* is aborted.
BodyMustFail(c) ==
    \/ BodyType(calls[c].result) = "json" /\ calls[c].result.text \notin JsonTexts
    \/ IsNative(c) /\ SignalAborted(c)

\* A native body may also fail on the network.
BodyMayFail(c) == BodyMustFail(c) \/ IsNative(c)

\* lines 141-150: the first then, on the Response of call c, whose record
\* becomes `call`
ThenHeaders(c, call) ==
    LET i == call.caller
        r == call.result
        x == [xhr[i] EXCEPT !.status = r.status, !.statusText = r.statusText,
                 !.responseURL = r.url, !.parsedHeaders = TRUE,
                 !.responseHeaders = {<<ToLowerCase(p[1]), p[2]>> : p \in r.headers},
                 !.readyState = 3]
    IN  /\ xhr' = [xhr EXCEPT ![i] = x]
        /\ dispatch' = TriggerEvent(i, "readystatechange", x)
        /\ step' = Steps("headers", i, c)
        /\ calls' = [calls EXCEPT ![c] = [call EXCEPT !.xpc = "body"]]

\* A catch that completes the request as the success path does.
CatchCompletes(c, call) ==
    LET i == call.caller
        x == [xhr[i] EXCEPT !.readyState = 4]
        onerror == "onerror" \in xhr[i].on
    IN  /\ xhr' = [xhr EXCEPT ![i] = x]
        /\ dispatch' = TriggerEvent(i, "readystatechange", x)
               \o (IF onerror THEN <<Callback(i, "error", x, call.error)>> ELSE <<>>)
        /\ calls' = [calls EXCEPT ![c] =
               [call EXCEPT !.xpc = "failed",
                            !.errors = @ + (IF onerror THEN 1 ELSE 0)]]
        /\ step' = Steps("catch", i, c)

\* lines 161-163: the catch, on the rejection of call c, whose record becomes
\* `call`
Catch(c, call) ==
    LET i == call.caller
        onerror == "onerror" \in xhr[i].on
    IN  /\ dispatch' = IF onerror
               THEN <<Callback(i, "error", xhr[i], call.error)>> ELSE <<>>
        /\ calls' = [calls EXCEPT ![c] =
               [call EXCEPT !.xpc = "failed",
                            !.errors = @ + (IF onerror THEN 1 ELSE 0)]]
        /\ step' = Steps("catch", i, c)
        /\ UNCHANGED xhr

\* The promise of call c settles, its record becoming `call`.  The reactions
\* that send() chained on it (lines 140-163) run as microtasks before any
\* other code of the page: the first then on a Response, the catch on a
\* rejection.  A call of the page has no reaction in the model.
Settle(c, call, op) ==
    IF call.caller # 0 /\ call.pc = "resolved" THEN ThenHeaders(c, call)
    ELSE IF call.caller # 0 /\ call.pc = "rejected" THEN Catch(c, call)
    ELSE /\ calls' = [calls EXCEPT ![c] = call]
         /\ step' = Steps(op, call.caller, c)
         /\ dispatch' = <<>>
         /\ UNCHANGED xhr

\* A handler that gives up on the second redirect of a call.
BridgeReturnLimited(c, descriptor) ==
    /\ calls[c].pc = "invoke"
    /\ calls[c].caller = 0
    /\ LET got == [calls[c] EXCEPT !.response = descriptor, !.nReceived = @ + 1]
           threw == ResponseThrows(ParseInt(descriptor.status_code))
       IN  calls' = [calls EXCEPT ![c] =
               IF IsRedirect(descriptor.status_code) /\ calls[c].nInvokes >= 2
               THEN [got EXCEPT !.pc = "rejected", !.error = "too many redirects"]
               ELSE IF IsRedirect(descriptor.status_code)
               THEN [got EXCEPT !.nInvokes = @ + 1,
                                !.cmd = FollowUpCommand,
                                !.req = RedirectRequest(Get(descriptor.headers, "location")),
                                !.invokeArgs = InvokeArgs(
                                    RedirectRequest(Get(descriptor.headers, "location")))]
               ELSE IF threw # Undefined
               THEN [got EXCEPT !.pc = "rejected", !.error = threw]
               ELSE [got EXCEPT !.pc = "resolved", !.result = NewResponse(descriptor)]]
    /\ step' = Steps("bridgeReturn", 0, c)
    /\ dispatch' = <<>>
    /\ UNCHANGED xhr
    /\ XhrUnchanged

\* A handler whose `response` is one variable shared by all calls: the
\* descriptor answered to call c lands in every pending call.
BridgeReturnShared(c, descriptor) ==
    /\ calls[c].pc = "invoke"
    /\ calls[c].caller = 0
    /\ IsRedirect(descriptor.status_code) => calls[c].nInvokes < MaxInvokes
    /\ LET got == [calls[c] EXCEPT !.response = descriptor, !.nReceived = @ + 1]
           threw == ResponseThrows(ParseInt(descriptor.status_code))
           mine == IF IsRedirect(descriptor.status_code)
                   THEN [got EXCEPT !.nInvokes = @ + 1,
                                    !.cmd = FollowUpCommand,
                                    !.req = RedirectRequest(Get(descriptor.headers, "location")),
                                    !.invokeArgs = InvokeArgs(
                                        RedirectRequest(Get(descriptor.headers, "location")))]
                   ELSE IF threw # Undefined
                   THEN [got EXCEPT !.pc = "rejected", !.error = threw]
                   ELSE [got EXCEPT !.pc = "resolved", !.result = NewResponse(descriptor)]
       IN  calls' = [o \in 1..MaxCalls |->
                        IF o = c THEN mine
                        ELSE IF calls[o].pc = "invoke"
                        THEN [calls[o] EXCEPT !.response = descriptor]
                        ELSE calls[o]]
    /\ step' = Steps("bridgeReturn", 0, c)
    /\ dispatch' = <<>>
    /\ UNCHANGED xhr
    /\ XhrUnchanged

\* lines 32-56 after an await: the bridge returned `descriptor` to call c.
\* A redirect status issues the follow-up invocation; any other status ends
\* the loop and the Response is built.
BridgeReturn(c, descriptor) ==
    /\ calls[c].pc = "invoke"
    /\ IsRedirect(descriptor.status_code) => calls[c].nInvokes < MaxInvokes
    /\ LET got == [calls[c] EXCEPT !.response = descriptor, !.nReceived = @ + 1]
           threw == ResponseThrows(ParseInt(descriptor.status_code))
       IN  Settle(c,
               IF IsRedirect(descriptor.status_code)
               THEN [got EXCEPT !.nInvokes = @ + 1,
                                !.cmd = FollowUpCommand,
                                !.req = RedirectRequest(Get(descriptor.headers, "location")),
                                !.invokeArgs = InvokeArgs(
                                    RedirectRequest(Get(descriptor.headers, "location")))]
               ELSE IF threw # Undefined
               THEN [got EXCEPT !.pc = "rejected", !.error = threw]
               ELSE [got EXCEPT !.pc = "resolved", !.result = NewResponse(descriptor)],
               "bridgeReturn")
    /\ XhrUnchanged

\* A failure handler that invokes the bridge again with the same request.
BridgeFailRetry(c, failure) ==
    /\ calls[c].pc = "invoke"
    /\ calls[c].nInvokes < MaxInvokes
    /\ Settle(c, [calls[c] EXCEPT !.nInvokes = @ + 1], "bridgeFail")
    /\ XhrUnchanged

\* lines 32 and 44: the awaited invoke() fails; the async function has no
\* handler, so its promise rejects with the failure.
BridgeFail(c, failure) ==
    /\ calls[c].pc = "invoke"
    /\ Settle(c, [calls[c] EXCEPT !.pc = "rejected", !.error = failure], "bridgeFail")
    /\ XhrUnchanged

\* line 23 (and line 140 before any initialize()): the native fetch answers,
\* unless the signal it was given is aborted.
NativeReturn(c, response) ==
    /\ calls[c].pc = "native"
    /\ ~SignalAborted(c)
    /\ Settle(c, [calls[c] EXCEPT !.pc = "resolved", !.result = response],
              "nativeReturn")
    /\ XhrUnchanged

\* The native fetch rejects: a network error, or an AbortError when the
\* signal is aborted.
NativeFail(c) ==
    /\ calls[c].pc = "native"
    /\ Settle(c, [calls[c] EXCEPT !.pc = "rejected",
                     !.error = IF SignalAborted(c) THEN "AbortError" ELSE "TypeError"],
              "nativeFail")
    /\ XhrUnchanged

\* lines 20-22 and 161-163: the override threw on the url that send() passed,
\* so fetch returned a rejected promise; the catch runs once the code that
\* called send() has returned.
CatchThrown(c) ==
    /\ calls[c].xpc = "fetch"
    /\ calls[c].pc = "rejected"
    /\ Catch(c, calls[c])
    /\ XhrUnchanged

\* A second then that fires the event and calls onload before it stores the
\* response.
ThenBodyFiresFirst(c) ==
    /\ calls[c].xpc = "body"
    /\ ~BodyMustFail(c)
    /\ LET i == calls[c].caller
           r == calls[c].result
           type == BodyType(r)
           early == [xhr[i] EXCEPT !.readyState = 4]
           x == [early EXCEPT
                    !.response = [type |-> type, value |-> r.text],
                    !.responseText = IF type = "blob" THEN "{}" ELSE r.text]
           onload == "onload" \in x.on
       IN  /\ xhr' = [xhr EXCEPT ![i] = x]
           /\ dispatch' = TriggerEvent(i, "readystatechange", early)
                  \o (IF onload THEN <<Callback(i, "load", early, Undefined)>> ELSE <<>>)
           /\ calls' = [calls EXCEPT ![c].xpc = "done",
                                     ![c].loads = @ + (IF onload THEN 1 ELSE 0)]
           /\ step' = Steps("body", i, c)
    /\ XhrUnchanged

\* lines 151-160: the second then, on the body that was read
ThenBody(c) ==
    /\ calls[c].xpc = "body"
    /\ ~BodyMustFail(c)
    /\ LET i == calls[c].caller
           r == calls[c].result
           type == BodyType(r)
           x == [xhr[i] EXCEPT !.readyState = 4,
                    !.response = [type |-> type, value |-> r.text],
                    !.responseText = IF type = "blob" THEN "{}" ELSE r.text]
           onload == "onload" \in x.on
       IN  /\ xhr' = [xhr EXCEPT ![i] = x]
           /\ dispatch' = TriggerEvent(i, "readystatechange", x)
                  \o (IF onload THEN <<Callback(i, "load", x, Undefined)>> ELSE <<>>)
           /\ calls' = [calls EXCEPT ![c].xpc = "done",
                                     ![c].loads = @ + (IF onload THEN 1 ELSE 0)]
           /\ step' = Steps("body", i, c)
    /\ XhrUnchanged

\* lines 149 and 161-163: reading the body rejected, and the catch runs
BodyFail(c) ==
    /\ calls[c].xpc = "body"
    /\ BodyMayFail(c)
    /\ Catch(c, [calls[c] EXCEPT !.error =
                    IF BodyMustFail(c) THEN "SyntaxError"
                    ELSE IF SignalAborted(c) THEN "AbortError" ELSE "TypeError"])
    /\ XhrUnchanged

----------------------------------------------------------------------------
\* Inputs.

ReservedUrl == "ipc://localhost/cmd"
Urls == {"/a", ReservedUrl}

PostOptions ==
    [given |-> TRUE, method |-> "POST", hasHeaders |-> TRUE,
     headers |-> {<<"X-Token", "t">>}, body |-> "q=1", signal |-> 0,
     credentials |-> Undefined]

PageOptions == {NoOptions, PostOptions}

StatusCodes == {"200", "204", "300", "301", "302", "303", "307", "308", "abc"}

\* "{}" as bytes
Bodies == {<<123, 125>>}

\* What the bridge answers a call of the page with.
FetchDescriptors ==
    [status_code : StatusCodes,
     headers : {{}, {<<"location", "/b">>}, {<<"Content-Type", "text/html">>}},
     body : Bodies]

NativeResponses ==
    {[status |-> 200, statusText |-> "OK", url |-> "http://host/a",
      headers |-> {<<"content-type", "text/html">>}, text |-> "ok"]}

Commands == {Undefined, "custom_request"}

BridgeError == "bridge error"

\* What the bridge answers a call of send() with.
XhrDescriptors ==
    [status_code : {"200"},
     headers : {{<<"content-type", "text/html">>}},
     body : Bodies]

\* An answer that announces JSON and carries the bytes of "oo".
MalformedJson ==
    [status_code |-> "200",
     headers |-> {<<"content-type", "application/json">>},
     body |-> <<111, 111>>]

Init ==
    /\ localAppRequestCommand = DefaultCommand
    /\ windowFetch = 0
    /\ originalFetch = <<>>
    /\ calls = [c \in 1..MaxCalls |-> NoCall]
    /\ xhr = [i \in 1..MaxXhr |-> NoXhr]
    /\ step = Steps("load", 0, 0)
    /\ dispatch = <<>>

\* The page calling window.fetch directly, once, at any point between the
\* runs of initialize().
NextFetch ==
    \/ \E override \in Commands : Initialize(override)
    \/ \E url \in Urls, options \in PageOptions : NextCall = 1 /\ Fetch(url, options)
    \/ \E c \in 1..MaxCalls, d \in FetchDescriptors : BridgeReturn(c, d)
    \/ \E c \in 1..MaxCalls : BridgeFail(c, BridgeError)
    \/ \E c \in 1..MaxCalls, r \in NativeResponses : NativeReturn(c, r)
    \/ \E c \in 1..MaxCalls : NativeFail(c)

SpecFetch == Init /\ [][NextFetch]_vars

\* The page has set nothing up yet: no instance is constructed.
AtLoad == \A i \in 1..MaxXhr : ~xhr[i].alive

\* Instance i is constructed and no method was called on it.
Fresh(i) == xhr[i].alive /\ xhr[i].method = Null /\ xhr[i].readyState = 0 /\ NextCall = 1

\* One request object driven by the page, over the native fetch or, after an
\* initialize() at load, over the bridge.  The page attaches its callbacks
\* before it calls open().
Next ==
    \/ AtLoad /\ windowFetch = 0 /\ Initialize(Undefined)
    \/ Construct(1)
    \/ Open(1, "GET", "/a", Null, Null)
    \/ NextCall <= MaxSends /\ Send(1, Null)
    \/ Abort(1)
    \/ Fresh(1) /\ ~xhr[1].aborted /\ AddEventListener(1, "xhr", "readystatechange", 1)
    \/ \E property \in {"onload", "onerror"} :
           Fresh(1) /\ ~xhr[1].aborted /\ SetOn(1, property)
    \/ \E c \in 1..MaxCalls, d \in XhrDescriptors \cup {MalformedJson} : BridgeReturn(c, d)
    \/ \E c \in 1..MaxCalls : BridgeFail(c, BridgeError)
    \/ \E c \in 1..MaxCalls, r \in NativeResponses : NativeReturn(c, r)
    \/ \E c \in 1..MaxCalls : NativeFail(c)
    \/ \E c \in 1..MaxCalls : CatchThrown(c)
    \/ \E c \in 1..MaxCalls : ThenBody(c)
    \/ \E c \in 1..MaxCalls : BodyFail(c)

Spec == Init /\ [][Next]_vars

\* What the bridge answers concurrent calls with: a final answer or a
\* redirect, to one of two locations.
ConcurrentDescriptors ==
    [status_code : {"200", "302"},
     headers : {{<<"location", "/b">>}, {<<"location", "/c">>}},
     body : Bodies]

\* Calls of the page that are pending at the same time, answered by the
\* bridge in any order.
NextConcurrent ==
    \/ windowFetch = 0 /\ Initialize(Undefined)
    \/ windowFetch # 0 /\ Fetch("/a", NoOptions)
    \/ \E c \in 1..MaxCalls, d \in ConcurrentDescriptors : BridgeReturn(c, d)
    \/ \E c \in 1..MaxCalls : BridgeFail(c, BridgeError)

SpecConcurrent == Init /\ [][NextConcurrent]_vars

\* A bridge that redirects to the location it was just asked for, answers
\* for good, or answers with a status no Response can carry.
LoopDescriptors ==
    [status_code : {"200", "302", "abc"},
     headers : {{<<"location", "/b">>}},
     body : Bodies]

\* The bridge answers the pending invocation of call c.
Answer(c) ==
    \/ \E d \in LoopDescriptors : BridgeReturn(c, d)
    \/ BridgeFail(c, BridgeError)

NextLive ==
    \/ windowFetch = 0 /\ Initialize(Undefined)
    \/ \E options \in PageOptions : windowFetch # 0 /\ Fetch("/b", options)
    \/ \E c \in 1..MaxCalls : Answer(c)

\* The bridge answers every invocation; it follows a call for at most
\* MaxInvokes invocations, so its redirects to one call are finitely many.
SpecLive ==
    Init /\ [][NextLive]_vars /\ \A c \in 1..MaxCalls : WF_vars(Answer(c))

\* What the bridge answers with when the page reads the response headers.
HeaderDescriptors ==
    [status_code : {"200"},
     headers : {{<<"content-type", "text/html">>},
                {<<"X-Served-By", "axum">>, <<"Content-Type", "text/html">>}},
     body : Bodies]

\* One request object whose response headers the page reads at any moment.
NextHeaders ==
    \/ AtLoad /\ windowFetch = 0 /\ Initialize(Undefined)
    \/ Construct(1)
    \/ Open(1, "GET", "/a", Null, Null)
    \/ NextCall <= MaxSends /\ Send(1, Null)
    \/ \E c \in 1..MaxCalls, d \in HeaderDescriptors : BridgeReturn(c, d)
    \/ \E c \in 1..MaxCalls : BridgeFail(c, BridgeError)
    \/ \E c \in 1..MaxCalls, r \in NativeResponses : NativeReturn(c, r)
    \/ \E c \in 1..MaxCalls : CatchThrown(c)
    \/ \E c \in 1..MaxCalls : ThenBody(c)
    \/ \E header \in {"Content-Type", "x-served-by", "etag"} : GetResponseHeader(1, header)
    \/ GetAllResponseHeaders(1)

SpecHeaders == Init /\ [][NextHeaders]_vars

\* One request object that is opened and sent more than once, with
\* credentials and without, and on which the page sets an Authorization
\* header of its own.
NextReuse ==
    \/ AtLoad /\ windowFetch = 0 /\ Initialize(Undefined)
    \/ Construct(1)
    \/ Open(1, "GET", "/a", Null, Null)
    \/ Open(1, "GET", "/a", "bob", "secret")
    \/ SetRequestHeader(1, "Authorization", "Bearer t")
    \/ Send(1, Null)
    \/ \E c \in 1..MaxCalls, d \in XhrDescriptors : BridgeReturn(c, d)
    \/ \E c \in 1..MaxCalls, r \in NativeResponses : NativeReturn(c, r)
    \/ \E c \in 1..MaxCalls : CatchThrown(c)
    \/ \E c \in 1..MaxCalls : ThenBody(c)

SpecReuse == Init /\ [][NextReuse]_vars

\* Listeners that add and remove listeners while an event is dispatched.
NextDispatch ==
    \/ Construct(1)
    \/ \E target \in {"xhr", "upload"}, id \in 1..MaxListeners :
           AddEventListener(1, target, "progress", id)
    \/ \E id \in 1..MaxListeners : AddEventListener(1, "xhr", "load", id)
    \/ \E target \in {"xhr", "upload"}, event \in {"progress", "load"},
          id \in 1..MaxListeners :
           RemoveEventListener(1, target, event, id)
    \/ \E event \in {"progress", "load"}, does \in [1..MaxListeners -> Behaviours] :
           DispatchOwn(1, event, does)
    \/ \E does \in [1..MaxListeners -> Behaviours] : DispatchUpload(1, "progress", does)

SpecDispatch == Init /\ [][NextDispatch]_vars

\* The number of registrations on the instances and their upload objects.
Registered ==
    Cardinality({r \in (1..MaxXhr) \X {"xhr", "upload"} \X EventNames \X (1..MaxListeners) :
                    r[4] <= Len(Registry(xhr[r[1]], r[2])[r[3]])})

\* Events triggered on instances that carry listeners on themselves and on
\* their upload objects.  The callback the page registers on instance i or
\* on its upload object is callback i.
NextEvents ==
    \/ \E i \in 1..MaxXhr : Construct(i)
    \/ /\ Registered < MaxListeners
       /\ \E i \in 1..MaxXhr, target \in {"xhr", "upload"}, event \in EventNames :
              AddEventListener(i, target, event, i)
    \/ \E i \in 1..MaxXhr, target \in {"xhr", "upload"}, event \in EventNames :
           RemoveEventListener(i, target, event, i)
    \/ \E property \in {"onprogress", "onreadystatechange"} : SetOn(1, property)
    \/ \E i \in 1..MaxXhr, event \in EventNames : Trigger(i, event)

SpecEvents == Init /\ [][NextEvents]_vars

\* The answers of the handler to a request of instance 1: a page, and a
\* body that is not the JSON its headers announce.
LifecycleDescriptors ==
    {[status_code |-> "200", headers |-> {<<"content-type", "text/html">>},
      body |-> <<111, 107>>],
     MalformedJson}

\* One request, from construction to completion or abort, of an instance
\* whose page registered listeners for every event name and on its upload
\* object before opening it.
NextLifecycle ==
    \/ AtLoad /\ windowFetch = 0 /\ Initialize(Undefined)
    \/ Construct(1)
    \/ /\ Fresh(1) /\ ~xhr[1].aborted /\ Registered < MaxListeners
       /\ \E event \in EventNames \ {"progressive"} :
              AddEventListener(1, "xhr", event, 1)
    \/ /\ Fresh(1) /\ ~xhr[1].aborted /\ Registered < MaxListeners
       /\ \E event \in {"readystatechange", "abort"} :
              AddEventListener(1, "upload", event, 1)
    \/ \E property \in {"onload", "onerror"} :
           Fresh(1) /\ ~xhr[1].aborted /\ SetOn(1, property)
    \/ Open(1, "GET", "/a", Null, Null)
    \/ NextCall <= MaxSends /\ Send(1, Null)
    \/ Abort(1)
    \/ \E c \in 1..MaxCalls, d \in LifecycleDescriptors : BridgeReturn(c, d)
    \/ \E c \in 1..MaxCalls : BridgeFail(c, BridgeError)
    \/ \E c \in 1..MaxCalls, r \in NativeResponses : NativeReturn(c, r)
    \/ \E c \in 1..MaxCalls : NativeFail(c)
    \/ \E c \in 1..MaxCalls : CatchThrown(c)
    \/ \E c \in 1..MaxCalls : ThenBody(c)
    \/ \E c \in 1..MaxCalls : BodyFail(c)

SpecLifecycle == Init /\ [][NextLifecycle]_vars

Users == {Null, "", "bob"}
Passwords == {Null, "", "secret"}

\* One request object opened with and without credentials and sent, over the
\* native fetch or over the bridge.
NextAuth ==
    \/ AtLoad /\ windowFetch = 0 /\ Initialize(Undefined)
    \/ Construct(1)
    \/ \E user \in Users, password \in Passwords : Open(1, "GET", "/a", user, password)
    \/ SetRequestHeader(1, "X-Token", "t")
    \/ NextCall <= MaxSends /\ Send(1, Null)
    \/ \E c \in 1..MaxCalls, d \in XhrDescriptors : BridgeReturn(c, d)
    \/ \E c \in 1..MaxCalls, r \in NativeResponses : NativeReturn(c, r)
    \/ \E c \in 1..MaxCalls : CatchThrown(c)
    \/ \E c \in 1..MaxCalls : ThenBody(c)

SpecAuth == Init /\ [][NextAuth]_vars

----------------------------------------------------------------------------
\* The claims about the fetch override.

CallIds == 1..MaxCalls

Made(c) == calls[c].pc # "idle"

Reserved(c) ==
    /\ Made(c)
    /\ calls[c].url \notin {Null, Undefined}
    /\ StartsWith(calls[c].url, "ipc://")

\* C2: each redirect descriptor (status_code parsing to 301, 302, 303, 307 or
\* 308) that a call receives is followed by exactly one more bridge
\* invocation, with the descriptor {uri: L, method: "GET", headers: {}} and
\* no body, L being the descriptor's location header; any other descriptor is
\* followed by none and ends the call; so the invocations of a call number one
\* more than the redirect descriptors it received.
C2_RedirectFollowUp ==
    /\ [][\A c \in CallIds :
            calls'[c].nReceived = calls[c].nReceived + 1 =>
                LET d == calls'[c].response
                    n == ParseInt(d.status_code)
                IN  IF ~n.nan /\ n.val \in {301, 302, 303, 307, 308}
                    THEN /\ calls'[c].nInvokes = calls[c].nInvokes + 1
                         /\ calls'[c].pc = "invoke"
                         /\ calls'[c].req =
                                [uri |-> Get(d.headers, "location"),
                                 method |-> "GET", headers |-> {}]
                    ELSE /\ calls'[c].nInvokes = calls[c].nInvokes
                         /\ calls'[c].pc \in {"resolved", "rejected"}]_vars
    /\ [](\A c \in CallIds :
            /\ calls[c].pc = "invoke" => calls[c].nInvokes = calls[c].nReceived + 1
            /\ calls[c].pc = "resolved" /\ calls[c].nInvokes > 0 =>
                   calls[c].nInvokes = 1 + (calls[c].nReceived - 1))

\* A POST with headers and a body was redirected twice and resolved.
C2_Witness ==
    \E c \in CallIds :
        /\ calls[c].pc = "resolved"
        /\ calls[c].nInvokes = 3
        /\ calls[c].options.method = "POST"
        /\ Truthy(calls[c].options.body)
        /\ calls[c].req = [uri |-> "/b", method |-> "GET", headers |-> {}]

\* C3: a call whose url begins with "ipc://" never invokes the bridge; it is
\* handed, with the arguments it was called with, from each override to the
\* function that was window.fetch before that override was installed, down
\* to the native function.
C3_ReservedBypass ==
    \A c \in CallIds :
        Reserved(c) =>
            /\ calls[c].nInvokes = 0
            /\ calls[c].cmd = Undefined
            /\ calls[c].pc \in {"native", "resolved", "rejected"}
            /\ calls[c].nativeArgs = <<calls[c].url, calls[c].options>>
            /\ \A j \in 1..(Len(calls[c].path) - 1) :
                   calls[c].path[j + 1] = calls[c].path[j] - 1
            /\ calls[c].path[Len(calls[c].path)] = 0

\* A reserved call went through an override and the native fetch answered.
C3_Witness ==
    \E c \in CallIds :
        /\ Reserved(c)
        /\ Len(calls[c].path) >= 2
        /\ calls[c].pc = "resolved"

\* C5: however often initialize() ran, the installed override holds the
\* native function as its original, and a reserved call reaches the native
\* function through exactly one override.
C5_SingleWrap ==
    /\ windowFetch # 0 => originalFetch[windowFetch] = 0
    /\ \A c \in CallIds :
           Reserved(c) /\ calls[c].path[1] # 0 => Len(calls[c].path) = 2

\* C8: when a bridge invocation of a call fails, the call's promise rejects
\* with that failure, no Response is produced, and the call makes no further
\* invocation.
C8_BridgeFailurePropagates ==
    [][\A c \in CallIds :
          /\ (step'.op = "bridgeFail" /\ step'.c = c /\ calls[c].pc = "invoke") =>
                 /\ calls'[c].pc = "rejected"
                 /\ calls'[c].error = BridgeError
                 /\ calls'[c].result = NoResponse
                 /\ calls'[c].nInvokes = calls[c].nInvokes
          /\ calls[c].pc = "rejected" =>
                 /\ calls'[c].pc = "rejected"
                 /\ calls'[c].error = calls[c].error
                 /\ calls'[c].result = NoResponse
                 /\ calls'[c].nInvokes = calls[c].nInvokes]_vars

\* The bridge failed on a redirect follow-up.
C8_Witness ==
    \E c \in CallIds :
        /\ step = Steps("bridgeFail", calls[c].caller, c)
        /\ calls[c].pc = "rejected"
        /\ calls[c].error = BridgeError
        /\ calls[c].nInvokes >= 2

\* C11: the Response of a call that resolves over the bridge describes the
\* last descriptor the call received, which has no redirect status: its
\* status is that descriptor's status_code as an integer, its headers are
\* that descriptor's headers under lower-cased names, its text the decoded
\* body; nothing of an earlier redirect descriptor is in it.
C11_ResponseFromLastDescriptor ==
    /\ [][\A c \in CallIds :
            (calls[c].pc = "invoke" /\ calls'[c].pc = "resolved") =>
                LET d == calls'[c].response
                    n == ParseInt(d.status_code)
                    r == calls'[c].result
                IN  /\ calls'[c].nReceived = calls[c].nReceived + 1
                    /\ ~n.nan /\ n.val \notin {301, 302, 303, 307, 308}
                    /\ r.status = n.val
                    /\ r.headers = {<<ToLowerCase(h[1]), h[2]>> : h \in d.headers}
                    /\ (d.headers = {} => r.headers = {})
                    /\ r.text = Utf8Decode(d.body)]_vars
    /\ [][\A c \in CallIds :
            calls[c].pc = "resolved" => calls'[c].result = calls[c].result]_vars

\* A call was redirected by a 302 with a location header and resolved with
\* the 300 answer that followed, which carried one header of its own.
C11_Witness ==
    \E c \in CallIds :
        /\ calls[c].pc = "resolved"
        /\ calls[c].nInvokes = 2
        /\ calls[c].req.uri = "/b"
        /\ calls[c].result.status = 300
        /\ calls[c].result.headers = {<<"content-type", "text/html">>}
        /\ calls[c].result.text = "{}"

\* C12: the command name changes only when initialize() is given an
\* override and is "local_app_request" before that; the first invocation of a
\* call is made under the command name configured at that moment; every
\* redirect follow-up is made under "local_app_request" whatever name is
\* configured; each invocation passes one argument, localRequest, holding
\* the request descriptor.
C12_CommandNames ==
    /\ [](originalFetch = <<>> => localAppRequestCommand = "local_app_request")
    /\ [][localAppRequestCommand' # localAppRequestCommand =>
              step'.op = "initialize" /\ localAppRequestCommand' = "custom_request"]_vars
    /\ [][\A c \in CallIds :
            /\ (calls[c].pc = "idle" /\ calls'[c].pc = "invoke") =>
                   /\ calls'[c].nInvokes = 1
                   /\ calls'[c].cmd = localAppRequestCommand
                   /\ DOMAIN calls'[c].invokeArgs = {"localRequest"}
                   /\ calls'[c].invokeArgs.localRequest.uri = calls'[c].url
            /\ (calls[c].nInvokes >= 1 /\ calls'[c].nInvokes = calls[c].nInvokes + 1) =>
                   /\ calls'[c].cmd = "local_app_request"
                   /\ DOMAIN calls'[c].invokeArgs = {"localRequest"}
                   /\ calls'[c].invokeArgs.localRequest =
                          [uri |-> Get(calls'[c].response.headers, "location"),
                           method |-> "GET", headers |-> {}]
            /\ calls'[c].nInvokes = calls[c].nInvokes =>
                   calls'[c].cmd = calls[c].cmd]_vars

\* A follow-up went out under "local_app_request" while "custom_request" was
\* configured.
C12_Witness ==
    \E c \in CallIds :
        /\ localAppRequestCommand = "custom_request"
        /\ calls[c].pc = "invoke"
        /\ calls[c].nInvokes = 2
        /\ calls[c].cmd = "local_app_request"
        /\ calls[c].invokeArgs.localRequest.uri = "/b"

----------------------------------------------------------------------------
\* The claims about the request object.

XhrIds == 1..MaxXhr

\* The invocations in d of listener id for event, on the target.
Invocations(d, target, id, event) ==
    {k \in 1..Len(d) : d[k].target = target /\ d[k].id = id /\ d[k].event = event}

\* The registrations of listener id in a list.
Registrations(list, id) == {k \in 1..Len(list) : list[k] = id}

\* C1: once abort() was called on a request whose send() had not completed,
\* no continuation of that send changes readyState (it stays UNSENT) and
\* onload is not invoked for that send.
C1_AbortIsFinal ==
    [][\A c \in CallIds :
          (calls[c].cancelled /\ step'.c = c) =>
              /\ xhr'[calls[c].caller].readyState = xhr[calls[c].caller].readyState
              /\ calls'[c].loads = 0]_vars

\* C4: every change of readyState that abort() did not make is a step to the
\* next state of UNSENT, OPENED, SENT, HEADERS_PARSED, DONE.
C4_StepsInSequence ==
    [][\A i \in XhrIds :
          (xhr'[i].readyState # xhr[i].readyState /\ step'.op # "abort") =>
              xhr'[i].readyState = xhr[i].readyState + 1]_vars

\* The operations that assign readyState, and the value each assigns.
Transitions == {"open", "send", "headers", "body", "abort"}

Assigned(op) ==
    CASE op = "open" -> 1
      [] op = "send" -> 2
      [] op = "headers" -> 3
      [] op = "body" -> 4
      [] OTHER -> 0

\* C6: construction invokes no callback; open(), send(), header arrival, body
\* arrival and abort() each invoke a registered readystatechange listener
\* once per registration, with readyState OPENED, SENT, HEADERS_PARSED, DONE
\* and UNSENT; no other operation invokes it.
C6_ListenerSeesTransitions ==
    /\ step.op = "construct" => dispatch = <<>>
    /\ \A i \in XhrIds, id \in 1..MaxListeners :
           LET seen == Invocations(dispatch, "listener", id, "readystatechange")
               list == xhr[i].eventListeners["readystatechange"]
           IN  step.x = i =>
                   IF step.op \in Transitions
                   THEN /\ Cardinality(seen) = Cardinality(Registrations(list, id))
                        /\ \A k \in seen : dispatch[k].readyState = Assigned(step.op)
                   ELSE seen = {}

\* The listener, registered once, was notified of DONE.
C6_Witness ==
    /\ step.op = "body"
    /\ xhr[1].eventListeners["readystatechange"] = <<1>>
    /\ Cardinality(Invocations(dispatch, "listener", 1, "readystatechange")) = 1
    /\ dispatch[1].readyState = 4

\* C7: when the fetch of a send() has rejected, the catch invokes onerror
\* once with the failure if onerror is set and nothing else, leaves the
\* instance as it was (readyState SENT stays SENT), and onload is never
\* invoked for that send.
C7_FailureOnlyCallsOnerror ==
    /\ [][\A c \in CallIds :
            (calls[c].xpc = "fetch" /\ calls'[c].pc = "rejected"
                /\ step'.op = "catch" /\ step'.c = c) =>
                LET i == calls[c].caller
                IN  /\ xhr'[i] = xhr[i]
                    /\ xhr[i].readyState = 2 => xhr'[i].readyState = 2
                    /\ dispatch' =
                           IF "onerror" \in xhr[i].on
                           THEN <<[x |-> i, target |-> "on", id |-> 0,
                                   event |-> "error",
                                   readyState |-> xhr[i].readyState,
                                   status |-> xhr[i].status,
                                   parsedHeaders |-> xhr[i].parsedHeaders,
                                   responseText |-> xhr[i].responseText,
                                   arg |-> calls'[c].error]>>
                           ELSE <<>>
                    /\ calls'[c].errors =
                           IF "onerror" \in xhr[i].on THEN 1 ELSE 0
                    /\ calls'[c].loads = 0]_vars
    /\ [](\A c \in CallIds :
            calls[c].xpc = "failed" => calls[c].loads = 0 /\ calls[c].errors <= 1)

\* The bridge failed, onerror was called and the request is still SENT.
C7_Witness ==
    \E c \in CallIds :
        /\ step = Steps("catch", 1, c)
        /\ calls[c].error = BridgeError
        /\ calls[c].errors = 1
        /\ Len(dispatch) = 1
        /\ xhr[1].readyState = 2

\* The invocations in d on a target, in order.
OnTarget(d, target) == SelectSeq(d, LAMBDA inv : inv.target = target)

\* The listener ids of a sequence of invocations.
Ids(d) == [k \in 1..Len(d) |-> d[k].id]

\* C9: an event triggered on an instance invokes the instance's own listeners
\* for that name and its on<event> callback; when the name begins with
\* "progress" or is "loadstart", "loadend" or "abort" it then invokes, after
\* all of those, every listener registered for the name on the instance's own
\* upload object; for any other name no upload listener is invoked; the
\* listeners of another instance's upload object are never invoked.
C9_UploadRelay ==
    step.op = "trigger" =>
        LET i == step.x
            e == step.event
            relayed == \/ e \in {"loadstart", "loadend", "abort"}
                       \/ Len(e) >= 8 /\ SubSeq(e, 1, 8) = "progress"
        IN  /\ \A k \in 1..Len(dispatch) : dispatch[k].event = e /\ dispatch[k].x = i
            /\ Ids(OnTarget(dispatch, "listener")) = xhr[i].eventListeners[e]
            /\ Len(OnTarget(dispatch, "on")) = IF ("on" \o e) \in xhr[i].on THEN 1 ELSE 0
            /\ Ids(OnTarget(dispatch, "upload")) =
                   IF relayed THEN xhr[i].upload[e] ELSE <<>>
            /\ \A k, m \in 1..Len(dispatch) :
                   dispatch[k].target = "upload" /\ dispatch[m].target # "upload" => m < k

\* "progress" was triggered on instance 1: its own listener ran, then its
\* onprogress callback, then the listener of its upload object.
C9_Witness ==
    /\ step.op = "trigger" /\ step.x = 1 /\ step.event = "progress"
    /\ Len(dispatch) = 3
    /\ dispatch[1].target = "listener"
    /\ dispatch[2].target = "on"
    /\ dispatch[3].target = "upload" /\ dispatch[3].id = 1

\* C10: send() passes credentials "include" when the user or the password
\* given to open() is set (a non-empty string) and "same-origin" when neither
\* is; when both are set the headers of the request carry Authorization:
\* Basic base64(user:password), "Basic Ym9iOnNlY3JldA==" for bob and secret,
\* also in the descriptor handed to the bridge; otherwise send() passes the
\* request headers as they were and adds none.
C10_Credentials ==
    [][\A i \in XhrIds :
          (step'.op = "send" /\ step'.x = i) =>
              LET user == xhr[i].user
                  password == xhr[i].password
                  isSet(v) == v \notin {Null, Undefined, ""}
                  call == calls'[step'.c]
              IN  /\ call.options.credentials =
                         IF isSet(user) \/ isSet(password)
                         THEN "include" ELSE "same-origin"
                  /\ (user = "bob" /\ password = "secret") =>
                         /\ <<"Authorization", "Basic Ym9iOnNlY3JldA==">>
                                \in call.options.headers
                         /\ call.pc = "invoke" =>
                                <<"Authorization", "Basic Ym9iOnNlY3JldA==">>
                                    \in call.req.headers
                  /\ (isSet(user) /\ isSet(password)) =>
                         \E p \in call.options.headers :
                             p[1] = "Authorization" /\ StartsWith(p[2], "Basic ")
                  /\ ~(isSet(user) /\ isSet(password)) =>
                         /\ call.options.headers = xhr[i].requestHeaders
                         /\ xhr'[i].requestHeaders = xhr[i].requestHeaders]_vars

\* A request opened for bob and secret was sent over the bridge.
C10_Witness ==
    \E c \in CallIds :
        /\ step = Steps("send", 1, c)
        /\ xhr[1].user = "bob" /\ xhr[1].password = "secret"
        /\ calls[c].options.credentials = "include"
        /\ calls[c].pc = "invoke"
        /\ Get(calls[c].req.headers, "Authorization") = "Basic Ym9iOnNlY3JldA=="

\* C13: for a send() that no abort() touched: send() sets readyState to SENT
\* and fires readystatechange, and only then is the request issued, so no
\* answer precedes it; on header arrival the callbacks of readystatechange
\* see HEADERS_PARSED together with the status and the parsed headers, and
\* statusText, responseURL and the lower-cased header mapping are stored; on
\* body arrival they see DONE with responseText stored; onload is called
\* once, last, seeing DONE, and in no other step.
C13_SuccessOrder ==
    /\ [][\A c \in CallIds :
            LET i == calls'[c].caller
                changes == {k \in 1..Len(dispatch') :
                               dispatch'[k].event = "readystatechange"}
                loads == {k \in 1..Len(dispatch') : dispatch'[k].event = "load"}
            IN  (step'.c = c /\ i # 0 /\ ~calls'[c].cancelled) =>
                    /\ step'.op = "send" =>
                           /\ calls[c].pc = "idle"
                           /\ calls'[c].nReceived = 0
                           /\ xhr'[i].readyState = 2
                           /\ changes = 1..Len(dispatch')
                           /\ \A k \in changes : dispatch'[k].readyState = 2
                    /\ step'.op = "headers" =>
                           /\ xhr'[i].readyState = 3
                           /\ xhr'[i].status = calls'[c].result.status
                           /\ xhr'[i].statusText = calls'[c].result.statusText
                           /\ xhr'[i].responseURL = calls'[c].result.url
                           /\ xhr'[i].responseHeaders =
                                  {<<ToLowerCase(h[1]), h[2]>> :
                                      h \in calls'[c].result.headers}
                           /\ changes = 1..Len(dispatch')
                           /\ \A k \in changes :
                                  /\ dispatch'[k].readyState = 3
                                  /\ dispatch'[k].status = calls'[c].result.status
                                  /\ dispatch'[k].parsedHeaders
                    /\ step'.op = "body" =>
                           /\ xhr'[i].readyState = 4
                           /\ xhr'[i].response.value = calls'[c].result.text
                           /\ xhr'[i].responseText \notin {Null, Undefined}
                           /\ \A k \in 1..Len(dispatch') :
                                  /\ dispatch'[k].readyState = 4
                                  /\ dispatch'[k].responseText = xhr'[i].responseText
                           /\ changes \cup loads = 1..Len(dispatch')
                           /\ loads = IF "onload" \in xhr[i].on
                                      THEN {Len(dispatch')} ELSE {}
                           /\ calls'[c].loads = Cardinality(loads)
                    /\ step'.op \notin {"body"} =>
                           calls'[c].loads = calls[c].loads /\ loads = {}]_vars
    /\ [](\A c \in CallIds :
            (calls[c].xpc = "done" /\ ~calls[c].cancelled) =>
                calls[c].loads = IF "onload" \in xhr[calls[c].caller].on THEN 1 ELSE 0)

\* A send over the bridge completed: the listener of readystatechange and
\* then onload ran, both seeing DONE and the response text.
C13_Witness ==
    \E c \in CallIds :
        /\ step = Steps("body", 1, c)
        /\ calls[c].nReceived = 1
        /\ calls[c].loads = 1
        /\ Len(dispatch) = 2
        /\ dispatch[1].target = "listener" /\ dispatch[1].readyState = 4
        /\ dispatch[2].event = "load" /\ dispatch[2].responseText = "{}"
        /\ xhr[1].status = 200

\* C14: a call has at most one bridge invocation that has not returned; a
\* follow-up is issued only in the step in which the previous invocation of
\* the same call returned; a call resolves only when all its invocations
\* have returned; an answer given to one call changes nothing of any other
\* call, and each follow-up goes to the location of the call's own answer.
C14_OneOutstandingInvocation ==
    /\ [](\A c \in CallIds :
            /\ calls[c].nInvokes - calls[c].nReceived \in {0, 1}
            /\ calls[c].pc = "invoke" => calls[c].nInvokes = calls[c].nReceived + 1
            /\ calls[c].nInvokes = calls[c].nReceived + 1 =>
                   calls[c].pc \in {"invoke", "rejected"}
            /\ calls[c].pc = "resolved" /\ calls[c].path[1] # 0 =>
                   calls[c].nInvokes = calls[c].nReceived /\ calls[c].nReceived >= 1)
    /\ [][\A c \in CallIds :
            /\ (calls[c].nInvokes >= 1 /\ calls'[c].nInvokes # calls[c].nInvokes) =>
                   /\ calls'[c].nInvokes = calls[c].nInvokes + 1
                   /\ calls'[c].nReceived = calls[c].nReceived + 1
                   /\ calls'[c].invokeArgs.localRequest.uri =
                          Get(calls'[c].response.headers, "location")
            /\ calls'[c] # calls[c] => step'.c = c
            /\ (step'.op \in {"bridgeReturn", "bridgeFail"} /\ step'.c = c) =>
                   \A o \in CallIds \ {c} : calls'[o] = calls[o]]_vars

\* Two calls are pending at once, each on the follow-up to the location its
\* own answer named.
C14_Witness ==
    \E c, o \in CallIds :
        /\ calls[c].pc = "invoke" /\ calls[o].pc = "invoke"
        /\ calls[c].nInvokes = 2 /\ calls[o].nInvokes = 3
        /\ calls[c].req.uri = "/b" /\ calls[c].response.headers = {<<"location", "/b">>}
        /\ calls[o].req.uri = "/c" /\ calls[o].response.headers = {<<"location", "/c">>}

\* C15: when the bridge answers every invocation and redirects a call only
\* finitely often, the call settles; it settles only in a step in which the
\* bridge failed or gave a descriptor without redirect status; a redirect
\* descriptor never settles it but is followed by one more invocation,
\* whatever the length of the chain so far and also when the location is
\* the one just requested.
C15_SettlesIffRedirectsEnd ==
    /\ \A c \in CallIds :
           (calls[c].pc = "invoke") ~> (calls[c].pc \in {"resolved", "rejected"})
    /\ [][\A c \in CallIds :
            LET d == calls'[c].response
                n == ParseInt(d.status_code)
                redirect == ~n.nan /\ n.val \in {301, 302, 303, 307, 308}
            IN  /\ (calls[c].pc = "invoke" /\ calls'[c].pc \in {"resolved", "rejected"}) =>
                       \/ step'.op = "bridgeFail" /\ step'.c = c
                       \/ step'.op = "bridgeReturn" /\ step'.c = c /\ ~redirect
                /\ (calls'[c].nReceived = calls[c].nReceived + 1 /\ redirect) =>
                       /\ calls'[c].pc = "invoke"
                       /\ calls'[c].nInvokes = calls[c].nInvokes + 1
                       /\ calls'[c].req.uri = Get(d.headers, "location")]_vars

\* The call for "/b" was redirected to "/b" twice and is on its third
\* invocation for it.
C15_Witness ==
    \E c \in CallIds :
        /\ calls[c].url = "/b"
        /\ calls[c].pc = "invoke"
        /\ calls[c].nInvokes = 3
        /\ calls[c].nReceived = 2
        /\ calls[c].req.uri = "/b"

\* C16: getResponseHeader and getAllResponseHeaders raise no error in any
\* state; while no response headers have been parsed getResponseHeader
\* returns null and getAllResponseHeaders the empty string.
C16_HeaderGettersNeverThrow ==
    step.op \in {"getResponseHeader", "getAllResponseHeaders"} =>
        /\ ~step.result.threw
        /\ ~xhr[step.x].parsedHeaders =>
               step.result.value =
                   IF step.op = "getResponseHeader" THEN Null ELSE ""

\* C17: the request of a send() carries a Basic Authorization header only
\* when the most recent open() gave both a user and a password (the page
\* itself sets only a Bearer one): credentials of an earlier open() and
\* send() are not attached to a request opened without them.
C17_NoCredentialLeak ==
    [][\A i \in XhrIds :
          (step'.op = "send" /\ step'.x = i) =>
              LET isSet(v) == v \notin {Null, Undefined, ""}
                  sent == calls'[step'.c].options.headers
              IN  (\E h \in sent : h[1] = "Authorization" /\ StartsWith(h[2], "Basic ")) =>
                      isSet(xhr[i].user) /\ isSet(xhr[i].password)]_vars

\* C18: for one send(), onload and onerror together are called at most
\* once; onerror is not called once the send has reached DONE; and when the
\* body cannot be decoded after the headers arrived, the request is not left
\* at HEADERS_PARSED with onerror called and onload never called.
C18_OneCompletionCallback ==
    /\ [](\A c \in CallIds : calls[c].loads + calls[c].errors <= 1)
    /\ [][\A c \in CallIds :
            /\ calls[c].xpc = "done" => calls'[c].errors = calls[c].errors
            /\ (step'.op = "catch" /\ step'.c = c /\ calls[c].xpc = "body") =>
                   ~ /\ xhr'[calls[c].caller].readyState = 3
                     /\ calls'[c].errors > 0
                     /\ calls'[c].loads = 0]_vars

\* The lists of all registries of instance i, keyed by target and event.
Lists(x) ==
    [t \in {"xhr", "upload"} \X EventNames |->
        IF t[1] = "xhr" THEN x.eventListeners[t[2]] ELSE x.upload[t[2]]]

\* list without its element at position k
Without(list, k) == SubSeq(list, 1, k - 1) \o SubSeq(list, k + 1, Len(list))

\* C19: an event triggered on the request object or on its upload object
\* calls every listener that was registered for the name when the event was
\* triggered, once each and in the order of registration, whatever the
\* listeners add to or remove from the list meanwhile; removeEventListener
\* removes at most one registration, from one list, and leaves every other
\* list as it was.
C19_DispatchCallsEveryListener ==
    /\ [][step'.op \in {"dispatch", "dispatchUpload"} =>
              LET i == step'.x
                  e == step'.event
                  registered == IF step'.op = "dispatch"
                                THEN xhr[i].eventListeners[e] ELSE xhr[i].upload[e]
                  target == IF step'.op = "dispatch" THEN "listener" ELSE "upload"
              IN  Ids(OnTarget(dispatch', target)) = registered]_vars
    /\ [][step'.op = "removeEventListener" =>
              LET before == Lists(xhr[step'.x])
                  after == Lists(xhr'[step'.x])
                  changed == {t \in DOMAIN before : after[t] # before[t]}
              IN  /\ Cardinality(changed) <= 1
                  /\ \A t \in changed :
                         \E k \in 1..Len(before[t]) : after[t] = Without(before[t], k)]_vars

\* The operations of the request object itself: its constructor, open, send
\* and the reactions send chained on the fetch, and abort.
OwnOperations == {"construct", "open", "send", "headers", "body", "catch", "abort"}

\* C20: the operations of the request object call the listeners of one event
\* name only, "readystatechange": they call no listener registered on the
\* object for "load", "error", "abort", "loadstart", "loadend" or "progress"
\* and no listener of its upload object, and what they deliver as load and
\* error goes to the onload and onerror properties alone.
C20_OnlyReadyStateChangeListeners ==
    step.op \in OwnOperations =>
        \A k \in 1..Len(dispatch) :
            /\ dispatch[k].target \in {"listener", "on"}
            /\ dispatch[k].target = "listener" => dispatch[k].event = "readystatechange"
            /\ dispatch[k].event \in {"load", "error"} => dispatch[k].target = "on"
            /\ dispatch[k].event \in {"readystatechange", "load", "error"}

\* The request of an instance with an "abort" listener of its own and one
\* on its upload object was aborted in flight: abort() called neither.
C20_Witness ==
    /\ step.op = "abort" /\ step.x = 1
    /\ xhr[1].eventListeners["abort"] = <<1>>
    /\ xhr[1].upload["abort"] = <<1>>
    /\ \E c \in 1..MaxCalls : calls[c].caller = 1 /\ calls[c].cancelled
    /\ dispatch = <<>>

====
